---- MODULE Spec2Model ----
(***************************************************************************)
(* Queue-driven job processing of AdAlchemyAI's Lambda functions.          *)
(*                                                                         *)
(* Two handlers consume a batch of SQS records, one job per record:        *)
(*   DecisionMakerFunction/main.py  process_company  (chat-webhook variant)*)
(*   ProcessCompanyFunction/main.py process_company  (email variant)       *)
(* A job calls the AI agent (one retry), writes the result to the document *)
(* store, notifies, starts a Step Functions execution and, when an         *)
(* exception reaches the per-record try/except, publishes the message to   *)
(* the dead-letter queue.                                                  *)
(*                                                                         *)
(* Further specifications in this module: SpecChunk (send_discord_message  *)
(* cutting a long content into parts), SpecRace (a second invocation on    *)
(* the same business), SpecShared (a collection other clients delete from) *)
(* and SpecEnqueue (EnqueueCompaniesFunction/main.py lambda_handler).      *)
(*                                                                         *)
(* A message body is a sequence of JSON tokens: the structural tokens      *)
(* "{" "}" ":" "," the whitespace token " " and string literals (every     *)
(* other token).  json.loads and json.dumps work on these tokens.          *)
(***************************************************************************)
EXTENDS Integers, Sequences, FiniteSets, TLC

VARIABLES
    variant,        \* which handler runs: "DecisionMaker" or "ProcessCompany"
    missing,        \* names of the environment variables that are not set
    nRecords,       \* len(event['Records'])
    cursor,         \* index of the record the for loop is at (0 before the first)
    pc,             \* position of the handler
    record,         \* record['body'] of the current record
    company_data,   \* json.loads(record['body'])
    business_name,  \* company_data['business_name']
    existing_data,  \* DecisionMaker: the dict built from existing_doc, or None
    attempt,        \* loop variable of the retry loop
    output,         \* result of run_marketing_agent
    raised,         \* step whose exception reached the per-record except clause
    store,          \* document store: business key -> documents in insertion order
    nextId,         \* next _id the store hands out
    clock,          \* days elapsed since StartDate (datetime.now())
    dlq,            \* messages in the dead-letter queue
    statusCode,     \* statusCode of the handler's return value (0: not returned)
    calls,          \* this job: requests sent to the AI agent, with their results
    jobInserts,     \* this job: insert_one calls that completed
    jobUpdates,     \* this job: update_one calls that completed
    jobNotified,    \* this job: notifications delivered
    notifyFailed,   \* this job: the notifier raised
    jobStarted,     \* this job: Step Functions executions started
    jobDlq,         \* this job: send_message calls to the dead-letter queue
    jobDlqSent,     \* this job: send_message calls that completed
    countBefore,    \* this job: documents of its business key when it began
    completeBefore, \* this job: its most recent document was complete when it began
    succeeded,      \* batch: jobs that ran to the end of the try block
    failed,         \* batch: jobs that ended in the except clause
    failedStep,     \* batch: the step that raised in the latest such job
    docsWritten,    \* batch: document writes (insert or update) that completed
    dlqFailures,    \* batch: dead-letter publishes that raised
    jobLookups,     \* this job: find_one calls on the business collection
    modified_count, \* this job: result.modified_count of its update_one (-1: none ran)
    storeFault,     \* this job: the step at which the document store raised
    peer_pc,        \* a second invocation of the handler for the same message
    peer_existing,  \* existing_data of the second invocation
    content,        \* send_discord_message: its content argument
    posted,         \* send_discord_message: bodies posted to the webhook so far
    chunk_pc,       \* send_discord_message: position
    enq_missing,    \* enqueue handler: environment variables that are not set
    companies,      \* enqueue handler: the documents its cursor yields, in order
    enq_pc,         \* enqueue handler: position
    sent,           \* enqueue handler: bodies of the messages it sent, in order
    enq_error,      \* enqueue handler: what raised ("none": nothing)
    enq_status      \* enqueue handler: statusCode returned (0: not returned)

vars == << variant, missing, nRecords, cursor, pc, record, company_data,
           business_name, existing_data, attempt, output, raised, store, nextId,
           clock, dlq, statusCode, calls, jobInserts, jobUpdates, jobNotified,
           notifyFailed, jobStarted, jobDlq, jobDlqSent, countBefore,
           completeBefore, succeeded, failed, failedStep, docsWritten,
           dlqFailures, jobLookups, modified_count, storeFault, peer_pc,
           peer_existing, content, posted, chunk_pc, enq_missing, companies,
           enq_pc, sent, enq_error, enq_status >>

jobVars == << calls, jobInserts, jobUpdates, jobNotified, notifyFailed,
              jobStarted, jobDlq, jobDlqSent >>

batchVars == << succeeded, failed, failedStep, docsWritten, dlqFailures >>

\* every variable of process_company
handlerVars == << variant, missing, nRecords, cursor, pc, record, company_data,
                  business_name, existing_data, attempt, output, raised, store,
                  nextId, clock, dlq, statusCode, calls, jobInserts, jobUpdates,
                  jobNotified, notifyFailed, jobStarted, jobDlq, jobDlqSent,
                  countBefore, completeBefore, succeeded, failed, failedStep,
                  docsWritten, dlqFailures, jobLookups, modified_count,
                  storeFault >>

\* what a job records about its use of the document store
probeVars == << jobLookups, modified_count, storeFault >>

\* every variable of the enqueue handler
enqVars == << enq_missing, companies, enq_pc, sent, enq_error, enq_status >>

\* the second invocation, the chat message being sent, the enqueue handler
sideVars == << peer_pc, peer_existing, content, posted, chunk_pc, enqVars >>

----------------------------------------------------------------------------
(* Bounds *)

\* largest batch of records in one event
MaxBatch == 2
\* days the clock can advance during one invocation
MaxClock == 1
\* the longest chat message has this many full parts, and one character more
MaxParts == 10
\* most documents in the company collection
MaxCompanies == 3

----------------------------------------------------------------------------
(* JSON on token sequences *)

Whitespace == {" "}
Structural == {"{", "}", ":", ",", " "}

IsLiteral(t) == t \notin Structural

\* value of a missing key / Python None
Absent == "<absent>"
None == "None"

\* A dict is a sequence of <<key, value>> pairs with distinct keys, in
\* insertion order.
has_key(d, k) == \E j \in 1..Len(d) : d[j][1] = k

get(d, k) == IF has_key(d, k)
             THEN d[CHOOSE j \in 1..Len(d) : d[j][1] = k][2]
             ELSE Absent

\* d[k] = v: a key already present keeps its position and takes the new value.
dict_set(d, k, v) ==
    IF has_key(d, k)
    THEN [j \in 1..Len(d) |-> IF d[j][1] = k THEN <<k, v>> ELSE d[j]]
    ELSE Append(d, <<k, v>>)

RECURSIVE dict_of(_)
dict_of(pairs) ==
    IF pairs = <<>> THEN <<>>
    ELSE LET n == Len(pairs)
         IN  dict_set(dict_of(SubSeq(pairs, 1, n - 1)), pairs[n][1], pairs[n][2])

strip(toks) == SelectSeq(toks, LAMBDA t : t \notin Whitespace)

\* the tokens between the braces form  key : value (, key : value)*
well_formed(m) ==
    \/ m = <<>>
    \/ /\ Len(m) % 4 = 3
       /\ \A j \in 1..Len(m) :
            CASE j % 4 = 1 -> IsLiteral(m[j])
              [] j % 4 = 2 -> m[j] = ":"
              [] j % 4 = 3 -> IsLiteral(m[j])
              [] OTHER     -> m[j] = ","

\* json.loads: [ok |-> FALSE] stands for JSONDecodeError
json_loads(body) ==
    LET s == strip(body)
        n == Len(s)
    IN  IF n >= 2 /\ s[1] = "{" /\ s[n] = "}" /\ well_formed(SubSeq(s, 2, n - 1))
        THEN LET m == SubSeq(s, 2, n - 1)
                 pairs == [j \in 1..((Len(m) + 1) \div 4) |->
                              <<m[4 * j - 3], m[4 * j - 1]>>]
             IN  [ok |-> TRUE, value |-> dict_of(pairs)]
        ELSE [ok |-> FALSE, value |-> <<>>]

RECURSIVE items(_)
items(d) ==
    IF d = <<>> THEN <<>>
    ELSE LET n == Len(d)
             item == <<d[n][1], ":", " ", d[n][2]>>
         IN  IF n = 1 THEN item
             ELSE items(SubSeq(d, 1, n - 1)) \o <<",", " ">> \o item

\* json.dumps with the default separators (', ', ': ')
json_dumps(d) == <<"{">> \o items(d) \o <<"}">>

----------------------------------------------------------------------------
(* Inputs: message bodies, agent results, stored documents, dates *)

DecisionMaker == "DecisionMaker"
ProcessCompany == "ProcessCompany"
Variants == {DecisionMaker, ProcessCompany}

\* os.environ.get(...) of both handlers, and EMAIL of send_notifications
EnvVars == {"MONGO_URI", "WEBSITE_URL", "DLQ_URL", "MONGO_COLLECTION_NAME",
            "STEP_FUNCTION_ARN", "EMAIL"}

\* the variables a handler reads (EMAIL: send_notifications of ProcessCompany)
env_read(v) == IF v = DecisionMaker THEN EnvVars \ {"EMAIL"} ELSE EnvVars

\* environments: everything set, or one of the variables read not set
Environments(v) == {{}} \cup {{n} : n \in env_read(v)}

BodyFull == <<"{", "business_name", ":", " ", "acme", ",", " ",
              "personas", ":", " ", "p", ",", " ", "email", ":", " ", "e", "}">>
\* the same object written without whitespace
BodyCompact == <<"{", "business_name", ":", "acme", ",",
                 "personas", ":", "p", ",", "email", ":", "e", "}">>
BodyNameOnly == <<"{", "business_name", ":", " ", "acme", "}">>
BodyNoName == <<"{", "email", ":", " ", "e", "}">>
BodyTruncated == <<"{", "business_name", ":">>

Bodies == {BodyFull, BodyCompact, BodyNameOnly, BodyNoName, BodyTruncated}

\* business_name values of the bodies above; each names its own collection
BusinessKeys == {"acme"}

ResultFields == {"list_of_keywords", "list_of_ad_text", "list_of_paths_taken",
                 "business", "user_personas"}

\* response.json() of the agent; Absent marks a key the response lacks
ResultFull == [list_of_keywords |-> "kw", list_of_ad_text |-> "ad",
               list_of_paths_taken |-> "paths", business |-> "biz",
               user_personas |-> "personas"]
ResultBare == [list_of_keywords |-> "kw", list_of_ad_text |-> "ad",
               list_of_paths_taken |-> Absent, business |-> Absent,
               user_personas |-> Absent]
ResultBroken == [list_of_keywords |-> "kw", list_of_ad_text |-> Absent,
                 list_of_paths_taken |-> Absent, business |-> Absent,
                 user_personas |-> Absent]
NoResult == [f \in ResultFields |-> Absent]

Results == {ResultFull, ResultBare, ResultBroken}

\* exceptions run_marketing_agent lets out: non-200 status, transport fault
AgentErrors == {"RuntimeError", "RequestException"}

NoDate == [year |-> 0, month |-> 0, day |-> 0]

OldDate == [year |-> 2024, month |-> 6, day |-> 1]

\* documents other writers left in the collection of "acme"
CompleteDoc(id) ==
    [_id |-> id, list_of_keywords |-> "kw0", list_of_ad_text |-> "ad0",
     list_of_paths_taken |-> "paths0", business |-> "biz0",
     user_personas |-> "personas0", date_written |-> OldDate]
IncompleteDoc(id) ==
    [_id |-> id, list_of_keywords |-> "kw0", list_of_ad_text |-> "ad0",
     list_of_paths_taken |-> Absent, business |-> "biz0",
     user_personas |-> Absent, date_written |-> OldDate]

InitialCollections == { <<>>, <<IncompleteDoc(1), CompleteDoc(2)>>,
                        <<CompleteDoc(1), IncompleteDoc(2)>> }

\* find_one(sort=[('_id', -1)]): the document with the largest _id
NoDoc == [_id |-> 0, list_of_keywords |-> Absent, list_of_ad_text |-> Absent,
          list_of_paths_taken |-> Absent, business |-> Absent,
          user_personas |-> Absent, date_written |-> NoDate]

find_one(coll) ==
    IF coll = <<>> THEN NoDoc
    ELSE coll[CHOOSE j \in 1..Len(coll) :
                \A k \in 1..Len(coll) : coll[k]._id <= coll[j]._id]

\* all(field in existing_doc for field in [...])
CompleteFields == {"user_personas", "business", "list_of_paths_taken"}
is_complete(doc) == doc # NoDoc /\ \A f \in CompleteFields : doc[f] # Absent

NoExisting == [_id |-> 0, business_name |-> Absent, user_personas |-> Absent,
               business |-> Absent, list_of_paths_taken |-> Absent]

\* DecisionMaker lines 186-194
existing_data_of(existing_doc, bn) ==
    IF is_complete(existing_doc)
    THEN [_id |-> existing_doc._id, business_name |-> bn,
          user_personas |-> existing_doc.user_personas,
          business |-> existing_doc.business,
          list_of_paths_taken |-> existing_doc.list_of_paths_taken]
    ELSE NoExisting

\* serialize_objectid: an ObjectId goes out as its string
serialize_objectid(id) == ToString(id)

\* json.loads(json.dumps(existing_data, default=serialize_objectid))
existing_json(e) ==
    IF e = NoExisting THEN [_id |-> "null", business_name |-> Absent,
                            user_personas |-> Absent, business |-> Absent,
                            list_of_paths_taken |-> Absent]
    ELSE [e EXCEPT !._id = serialize_objectid(e._id)]

\* the JSON body run_marketing_agent posts
request_of(v, bn, cd, e) ==
    IF v = DecisionMaker
    THEN [business_name |-> bn, existing_data |-> existing_json(e)]
    ELSE [business_name |-> bn, persona |-> <<", ", get(cd, "personas")>>]

----------------------------------------------------------------------------
(* Document writes of write_to_mongodb *)

\* datetime.now() on day c of the clock
now(c) == IF c = 0
          THEN [year |-> 2024, month |-> 12, day |-> 31, hour |-> 9]
          ELSE [year |-> 2025, month |-> 1, day |-> c, hour |-> 9]

\* month and day exchanged
date_written_swapped(current_date) ==
    [year |-> current_date.year, month |-> current_date.day,
     day |-> current_date.month]

\* the {year, month, day} stamp built from current_date
date_written(current_date) ==
    [year |-> current_date.year, month |-> current_date.month,
     day |-> current_date.day]

\* data.get(key): None for a key the response lacks
data_get(data, key) == IF data[key] = Absent THEN None ELSE data[key]

\* keys read with data[key]: a response lacking one raises KeyError
required_fields(v) ==
    IF v = DecisionMaker THEN {"list_of_keywords", "list_of_ad_text"}
    ELSE ResultFields

key_error(v, data) == \E f \in required_fields(v) : data[f] = Absent

\* the update branch never taken
update_mode_never(e) == FALSE

\* if existing_data and '_id' in existing_data
update_mode(e) == e # NoExisting

\* an insert that also follows the update
write_ops_both(v, e) ==
    IF v = DecisionMaker /\ update_mode(e)
    THEN <<"update_one", "insert_one">>
    ELSE <<"insert_one">>

\* store calls one write_to_mongodb makes, in order
write_ops(v, e) ==
    IF v = DecisionMaker /\ update_mode(e)
    THEN <<"update_one">>
    ELSE <<"insert_one">>

\* an update that sets every field the response carries
update_one_every_field(coll, id, data, stamp) ==
    [j \in 1..Len(coll) |->
        IF coll[j]._id = id
        THEN [coll[j] EXCEPT !.list_of_keywords = data.list_of_keywords,
                             !.list_of_ad_text = data.list_of_ad_text,
                             !.business = data_get(data, "business"),
                             !.date_written = stamp]
        ELSE coll[j]]

\* update_one({'_id': id}, {'$set': update_fields})
update_one(coll, id, data, stamp) ==
    [j \in 1..Len(coll) |->
        IF coll[j]._id = id
        THEN [coll[j] EXCEPT !.list_of_keywords = data.list_of_keywords,
                             !.list_of_ad_text = data.list_of_ad_text,
                             !.date_written = stamp]
        ELSE coll[j]]

\* structured_data, with the _id insert_one gives it
structured_data(v, data, id, stamp) ==
    IF v = DecisionMaker
    THEN [_id |-> id,
          list_of_keywords |-> data.list_of_keywords,
          list_of_ad_text |-> data.list_of_ad_text,
          list_of_paths_taken |-> data_get(data, "list_of_paths_taken"),
          business |-> data_get(data, "business"),
          user_personas |-> data_get(data, "user_personas"),
          date_written |-> stamp]
    ELSE [_id |-> id,
          list_of_keywords |-> data.list_of_keywords,
          list_of_ad_text |-> data.list_of_ad_text,
          list_of_paths_taken |-> data.list_of_paths_taken,
          business |-> data.business,
          user_personas |-> data.user_personas,
          date_written |-> stamp]

count_ops(ops, op) == Cardinality({j \in 1..Len(ops) : ops[j] = op})

\* the collection after the store calls of one write_to_mongodb
written(v, coll, data, e, id, stamp) ==
    LET ops == write_ops(v, e)
        updated == IF count_ops(ops, "update_one") > 0
                   THEN update_one(coll, e._id, data, stamp)
                   ELSE coll
    IN  IF count_ops(ops, "insert_one") > 0
        THEN Append(updated, structured_data(v, data, id, stamp))
        ELSE updated

----------------------------------------------------------------------------
(* Environment *)

\* calls that raise because a variable they are given is not set:
\* requests.post(None) raises MissingSchema, boto3 rejects a None QueueUrl,
\* stateMachineArn or Source, client[None] raises TypeError, and
\* MongoClient(None) falls back to localhost, where the Lambda sandbox runs
\* no server, so every store call times out
unset(names) == names \cap missing # {}

\* outcomes of a call that raises whenever `broken` holds
Outcomes(broken) == IF broken THEN {FALSE} ELSE BOOLEAN

\* one retry more
max_retries_two == 1 + 1

max_retries == 1

----------------------------------------------------------------------------
(* Initial state: the handler is entered with its event *)

\* process_company is entered: nothing of the batch has been done
HandlerStart ==
    /\ nextId = 3
    /\ clock = 0
    /\ cursor = 0
    /\ pc = "loop"
    /\ record = <<>>
    /\ company_data = <<>>
    /\ business_name = ""
    /\ existing_data = NoExisting
    /\ attempt = 0
    /\ output = NoResult
    /\ raised = "none"
    /\ dlq = <<>>
    /\ statusCode = 0
    /\ calls = <<>>
    /\ jobInserts = 0
    /\ jobUpdates = 0
    /\ jobNotified = 0
    /\ notifyFailed = FALSE
    /\ jobStarted = 0
    /\ jobDlq = 0
    /\ jobDlqSent = 0
    /\ countBefore = 0
    /\ completeBefore = FALSE
    /\ succeeded = 0
    /\ failed = 0
    /\ failedStep = "none"
    /\ docsWritten = 0
    /\ dlqFailures = 0
    /\ jobLookups = 0
    /\ modified_count = -1
    /\ storeFault = "none"

\* no second invocation runs
PeerIdle == peer_pc = "idle" /\ peer_existing = NoExisting

\* no chat message is being sent
ChunkIdle == content = <<>> /\ posted = <<>> /\ chunk_pc = "idle"

\* the enqueue handler does not run
EnqueueIdle ==
    /\ enq_missing = {}
    /\ companies = <<>>
    /\ enq_pc = "idle"
    /\ sent = <<>>
    /\ enq_error = "none"
    /\ enq_status = 0

Init ==
    /\ variant \in Variants
    /\ missing \in Environments(variant)
    /\ nRecords \in 1..MaxBatch
    /\ store \in [BusinessKeys -> InitialCollections]
    /\ HandlerStart
    /\ PeerIdle
    /\ ChunkIdle
    /\ EnqueueIdle

----------------------------------------------------------------------------
(* The handler, step by step *)

\* keys read from company_data before the try block
key_fields(v) ==
    IF v = DecisionMaker THEN <<"business_name">>
    ELSE <<"business_name", "personas", "email">>

\* json.loads(record['body']) and the key reads succeed
extractable(v, body) ==
    /\ json_loads(body).ok
    /\ \A j \in 1..Len(key_fields(v)) :
           has_key(json_loads(body).value, key_fields(v)[j])

\* for record in event['Records']: the next record is read and its key
\* fields extracted.  These statements stand outside the try block: an
\* exception they raise leaves process_company.
ReadRecord ==
    /\ pc = "loop"
    /\ cursor < nRecords
    /\ \E body \in Bodies :
         /\ record' = body
         /\ cursor' = cursor + 1
         /\ IF extractable(variant, body)
            THEN LET cd == json_loads(body).value
                     bn == get(cd, "business_name")
                 IN  /\ company_data' = cd
                     /\ business_name' = bn
                     /\ countBefore' = Len(store[bn])
                     /\ completeBefore' = is_complete(find_one(store[bn]))
                     /\ pc' = IF variant = DecisionMaker THEN "find" ELSE "call"
            ELSE /\ company_data' = IF json_loads(body).ok
                                    THEN json_loads(body).value
                                    ELSE company_data
                 /\ UNCHANGED << business_name, countBefore, completeBefore >>
                 /\ pc' = "crashed"
    /\ existing_data' = NoExisting
    /\ attempt' = 0
    /\ output' = NoResult
    /\ raised' = "none"
    /\ calls' = <<>>
    /\ jobInserts' = 0
    /\ jobUpdates' = 0
    /\ jobNotified' = 0
    /\ notifyFailed' = FALSE
    /\ jobStarted' = 0
    /\ jobDlq' = 0
    /\ jobDlqSent' = 0
    /\ jobLookups' = 0
    /\ modified_count' = -1
    /\ storeFault' = "none"
    /\ UNCHANGED << sideVars, variant, missing, nRecords, store, nextId, clock, dlq,
                    statusCode, batchVars >>

\* a fault of the store that is printed and not raised again
on_store_fault_swallowed(step) == IF step = "write" THEN "sfn" ELSE "dlq"

\* where a fault of the document store takes the job: the lookup stands
\* unguarded in the try block of the record and write_to_mongodb raises the
\* fault again, so it reaches the except clause of the record
on_store_fault(step) == "dlq"

\* DecisionMaker lines 181-194: the most recent document of the business is
\* looked up and existing_data built from it
FindExisting ==
    /\ pc = "find"
    /\ \E ok \in Outcomes(unset({"MONGO_URI", "MONGO_COLLECTION_NAME"})) :
         IF ok
         THEN /\ existing_data' =
                    existing_data_of(find_one(store[business_name]), business_name)
              /\ pc' = "call"
              /\ UNCHANGED << raised, storeFault >>
         ELSE /\ raised' = "find"
              /\ storeFault' = "find"
              /\ pc' = on_store_fault("find")
              /\ UNCHANGED existing_data
    /\ jobLookups' = jobLookups + 1
    /\ UNCHANGED << sideVars, modified_count, variant, missing, nRecords, cursor, record, company_data,
                    business_name, attempt, output, store, nextId, clock, dlq,
                    statusCode, jobVars, countBefore, completeBefore, batchVars >>

\* a swallowed last failure: the loop ends and the write follows
after_failure_swallowed(a) == IF a < max_retries THEN "call" ELSE "write"

\* a last failure that goes on to the next record (continue)
after_failure_continue(a) == IF a < max_retries THEN "call" ELSE "loop"

\* where the retry loop goes after a failed attempt: the next pass, or
\* (bare raise) the except clause of the record
after_failure(a) == IF a < max_retries THEN "call" ELSE "dlq"

\* one pass of  for attempt in range(max_retries + 1)
CallAgent ==
    /\ pc = "call"
    /\ LET req == request_of(variant, business_name, company_data, existing_data)
       IN  \/ /\ ~unset({"WEBSITE_URL"})
              /\ \E r \in Results :
                   /\ calls' = Append(calls, [request |-> req, ok |-> TRUE,
                                              response |-> r])
                   /\ output' = r
                   /\ pc' = "write"
                   /\ UNCHANGED << attempt, raised >>
           \/ \E err \in AgentErrors :
                   /\ calls' = Append(calls, [request |-> req, ok |-> FALSE,
                                              response |-> NoResult])
                   /\ pc' = after_failure(attempt)
                   /\ attempt' = IF after_failure(attempt) = "call"
                                 THEN attempt + 1 ELSE attempt
                   /\ raised' = IF after_failure(attempt) = "dlq"
                                THEN "call" ELSE raised
                   /\ UNCHANGED output
    /\ UNCHANGED << sideVars, probeVars, variant, missing, nRecords, cursor, record, company_data,
                    business_name, existing_data, store, nextId, clock, dlq,
                    statusCode, jobInserts, jobUpdates, jobNotified, notifyFailed,
                    jobStarted, jobDlq, jobDlqSent, countBefore, completeBefore,
                    batchVars >>

\* result.modified_count of update_one: the documents the update changed
modified(before, after) ==
    Cardinality({j \in 1..Len(before) : after[j] # before[j]})

\* an update that modified nothing treated as a failure
after_update_strict(mc) == IF mc = 0 THEN "dlq" ELSE "notify"

\* DecisionMaker lines 108-111: both branches only print, the rest of
\* write_to_mongodb follows
after_update(mc) == "notify"

\* write_to_mongodb up to the insert or update (DecisionMaker lines 85-123,
\* ProcessCompany lines 92-115)
WriteToMongo ==
    /\ pc = "write"
    /\ \E ok \in Outcomes(unset({"MONGO_URI", "MONGO_COLLECTION_NAME"}) \/ key_error(variant, output)) :
         IF ok
         THEN LET ops == write_ops(variant, existing_data)
                  stamp == date_written(now(clock))
                  coll == written(variant, store[business_name], output,
                                  existing_data, nextId, stamp)
                  mc == IF count_ops(ops, "update_one") = 0 THEN -1
                        ELSE modified(store[business_name], coll)
                  next == IF variant = ProcessCompany THEN "email"
                          ELSE IF mc = -1 THEN "notify" ELSE after_update(mc)
              IN  /\ store' = [store EXCEPT ![business_name] = coll]
                  /\ nextId' = nextId + count_ops(ops, "insert_one")
                  /\ jobInserts' = jobInserts + count_ops(ops, "insert_one")
                  /\ jobUpdates' = jobUpdates + count_ops(ops, "update_one")
                  /\ docsWritten' = docsWritten + Len(ops)
                  /\ modified_count' = mc
                  /\ pc' = next
                  /\ raised' = IF next = "dlq" THEN "write" ELSE raised
                  /\ UNCHANGED storeFault
         ELSE LET next == IF key_error(variant, output) THEN "dlq"
                          ELSE on_store_fault("write")
              IN  /\ storeFault' = IF key_error(variant, output)
                                    THEN storeFault ELSE "write"
                  /\ pc' = next
                  /\ raised' = IF next = "dlq" THEN "write" ELSE raised
              /\ UNCHANGED << store, nextId, jobInserts, jobUpdates, docsWritten,
                              modified_count >>
    /\ UNCHANGED << sideVars, jobLookups, variant, missing, nRecords, cursor, record, company_data,
                    business_name, existing_data, attempt, output, clock, dlq,
                    statusCode, calls, jobNotified, notifyFailed, jobStarted,
                    jobDlq, jobDlqSent, countBefore, completeBefore, succeeded,
                    failed, failedStep, dlqFailures >>

\* every notifier failure raised on
propagates_all(step) == TRUE

\* notifier failures that leave the notifier: the webhook lookup is not
\* guarded and the email failure is raised again; the RequestException of
\* the webhook post is caught (DecisionMaker line 142)
propagates(step) == step \in {"webhook_lookup", "email"}

\* DecisionMaker lines 125-146, the rest of write_to_mongodb: the webhook of
\* the business is looked up and the message posted
NotifyWebhook ==
    /\ pc = "notify"
    /\ \E result \in IF unset({"MONGO_URI"}) THEN {"webhook_lookup"}
                      ELSE {"webhook_lookup", "no_webhook", "webhook_post", "sent"} :
         /\ jobNotified' = IF result = "sent" THEN jobNotified + 1 ELSE jobNotified
         /\ notifyFailed' = (result \in {"webhook_lookup", "webhook_post"})
         /\ IF notifyFailed' /\ propagates(result)
            THEN /\ raised' = result
                 /\ pc' = "dlq"
            ELSE /\ pc' = "sfn"
                 /\ UNCHANGED raised
    /\ UNCHANGED << sideVars, probeVars, variant, missing, nRecords, cursor, record, company_data,
                    business_name, existing_data, attempt, output, store, nextId,
                    clock, dlq, statusCode, calls, jobInserts, jobUpdates,
                    jobStarted, jobDlq, jobDlqSent, countBefore, completeBefore,
                    batchVars >>

\* ProcessCompany lines 166-174: send_notifications; its exception is
\* printed and raised again
SendEmail ==
    /\ pc = "email"
    /\ \E ok \in Outcomes(unset({"EMAIL"})) :
         IF ok
         THEN /\ jobNotified' = jobNotified + 1
              /\ pc' = "sfn"
              /\ UNCHANGED << notifyFailed, raised >>
         ELSE /\ notifyFailed' = TRUE
              /\ raised' = IF propagates("email") THEN "email" ELSE raised
              /\ pc' = IF propagates("email") THEN "dlq" ELSE "sfn"
              /\ UNCHANGED jobNotified
    /\ UNCHANGED << sideVars, probeVars, variant, missing, nRecords, cursor, record, company_data,
                    business_name, existing_data, attempt, output, store, nextId,
                    clock, dlq, statusCode, calls, jobInserts, jobUpdates,
                    jobStarted, jobDlq, jobDlqSent, countBefore, completeBefore,
                    batchVars >>

\* sfn_client.start_execution(...): the last statement of the try block
StartExecution ==
    /\ pc = "sfn"
    /\ \E ok \in Outcomes(unset({"STEP_FUNCTION_ARN"})) :
         IF ok
         THEN /\ jobStarted' = jobStarted + 1
              /\ succeeded' = succeeded + 1
              /\ pc' = "loop"
              /\ UNCHANGED raised
         ELSE /\ raised' = "sfn"
              /\ pc' = "dlq"
              /\ UNCHANGED << jobStarted, succeeded >>
    /\ UNCHANGED << sideVars, probeVars, variant, missing, nRecords, cursor, record, company_data,
                    business_name, existing_data, attempt, output, store, nextId,
                    clock, dlq, statusCode, calls, jobInserts, jobUpdates,
                    jobNotified, notifyFailed, jobDlq, jobDlqSent, countBefore,
                    completeBefore, failed, failedStep, docsWritten,
                    dlqFailures >>

\* MessageBody of the dead-letter publish
dlq_body(cd) == json_dumps(cd)

\* a failed dead-letter publish that leaves process_company
after_dlq_escalated(ok) == IF ok THEN "loop" ELSE "crashed"

\* where the except clause of the record ends: its inner try/except prints
\* a failure of send_message, and the for loop goes on either way
after_dlq(ok) == "loop"

\* except Exception as e: the message is sent to the dead-letter queue; a
\* failure of send_message is printed and dropped
SendToDlq ==
    /\ pc = "dlq"
    /\ \E ok \in Outcomes(unset({"DLQ_URL"})) :
         IF ok
         THEN /\ dlq' = Append(dlq, dlq_body(company_data))
              /\ jobDlqSent' = jobDlqSent + 1
              /\ pc' = after_dlq(ok)
              /\ UNCHANGED dlqFailures
         ELSE /\ dlqFailures' = dlqFailures + 1
              /\ pc' = after_dlq(ok)
              /\ UNCHANGED << dlq, jobDlqSent >>
    /\ jobDlq' = jobDlq + 1
    /\ failed' = failed + 1
    /\ failedStep' = raised
    /\ UNCHANGED << sideVars, probeVars, variant, missing, nRecords, cursor, record, company_data,
                    business_name, existing_data, attempt, output, raised, store,
                    nextId, clock, statusCode, calls, jobInserts, jobUpdates,
                    jobNotified, notifyFailed, jobStarted, countBefore,
                    completeBefore, succeeded, docsWritten >>

\* return {'statusCode': 200, ...} after the last record
Return ==
    /\ pc = "loop"
    /\ cursor = nRecords
    /\ statusCode' = 200
    /\ pc' = "returned"
    /\ UNCHANGED << sideVars, probeVars, variant, missing, nRecords, cursor, record, company_data,
                    business_name, existing_data, attempt, output, raised, store,
                    nextId, clock, dlq, jobVars, countBefore, completeBefore,
                    batchVars >>

\* a day passes while the handler waits on a network call.  The clock is
\* read only in write_to_mongodb, and every job passes the agent call before
\* it writes: days that pass after the write show as days of the next job.
Tick ==
    /\ pc \in {"find", "call", "write"}
    /\ clock < MaxClock
    /\ clock' = clock + 1
    /\ UNCHANGED << sideVars, probeVars, variant, missing, nRecords, cursor, pc, record, company_data,
                    business_name, existing_data, attempt, output, raised, store,
                    nextId, dlq, statusCode, jobVars, countBefore,
                    completeBefore, batchVars >>

Next ==
    \/ ReadRecord
    \/ FindExisting
    \/ CallAgent
    \/ WriteToMongo
    \/ NotifyWebhook
    \/ SendEmail
    \/ StartExecution
    \/ SendToDlq
    \/ Return
    \/ Tick

Spec == Init /\ [][Next]_vars

----------------------------------------------------------------------------
(* send_discord_message: a chat message, in one piece or in parts *)

MAX_LENGTH == 1900

Letters == <<"a", "b", "c", "d", "e", "f", "g">>

\* a content of n characters; the letters repeat with a period that does
\* not divide MAX_LENGTH, so that parts differ from each other
text(n) == [i \in 1..n |-> Letters[(i % Len(Letters)) + 1]]

\* lengths around every multiple of MAX_LENGTH, and the 5000 characters of
\* the specification's example
ContentLengths ==
    {5000} \cup
    {n \in {k * MAX_LENGTH + d : k \in 0..MaxParts, d \in {-1, 0, 1}} : n >= 0}

Digits == <<"0", "1", "2", "3", "4", "5", "6", "7", "8", "9">>

\* str(n) of a natural number, as the f-string formats it
RECURSIVE str(_)
str(n) == IF n < 10 THEN << Digits[n + 1] >>
          ELSE str(n \div 10) \o << Digits[(n % 10) + 1] >>

\* f"(Part {i}/{len(parts)}) " : what stands before the part
part_label(i, n) ==
    <<"(", "P", "a", "r", "t", " ">> \o str(i) \o <<"/">> \o str(n)
        \o <<")", " ">>

\* slices one character short: content[i:i+MAX_LENGTH-1]
parts_of_short(c) ==
    [k \in 1..((Len(c) + MAX_LENGTH - 1) \div MAX_LENGTH) |->
        SubSeq(c, (k - 1) * MAX_LENGTH + 1,
               IF k * MAX_LENGTH - 1 < Len(c) THEN k * MAX_LENGTH - 1 ELSE Len(c))]

\* [content[i:i+MAX_LENGTH] for i in range(0, len(content), MAX_LENGTH)]
parts_of(c) ==
    [k \in 1..((Len(c) + MAX_LENGTH - 1) \div MAX_LENGTH) |->
        SubSeq(c, (k - 1) * MAX_LENGTH + 1,
               IF k * MAX_LENGTH < Len(c) THEN k * MAX_LENGTH ELSE Len(c))]

\* send_discord_message is entered with a content
InitChunk ==
    /\ variant = DecisionMaker
    /\ missing = {}
    /\ nRecords = 1
    /\ store = [b \in BusinessKeys |-> <<>>]
    /\ HandlerStart
    /\ PeerIdle
    /\ EnqueueIdle
    /\ content \in {text(n) : n \in ContentLengths}
    /\ posted = <<>>
    /\ chunk_pc = "send"

\* lines 20-24: a content of at most MAX_LENGTH characters is posted as it
\* is; raise_for_status raises when the webhook answers with an error
PostWhole ==
    /\ chunk_pc = "send"
    /\ Len(content) <= MAX_LENGTH
    /\ \E ok \in BOOLEAN :
         IF ok
         THEN /\ posted' = << content >>
              /\ chunk_pc' = "done"
         ELSE /\ chunk_pc' = "raised"
              /\ UNCHANGED posted
    /\ UNCHANGED << handlerVars, peer_pc, peer_existing, content, enqVars >>

\* lines 26-31: one pass of  for i, part in enumerate(parts, 1)
PostPart ==
    /\ chunk_pc = "send"
    /\ Len(content) > MAX_LENGTH
    /\ LET parts == parts_of(content)
           i == Len(posted) + 1
       IN  \E ok \in BOOLEAN :
             IF ok
             THEN /\ posted' = Append(posted,
                                      part_label(i, Len(parts)) \o parts[i])
                  /\ chunk_pc' = IF i = Len(parts) THEN "done" ELSE "send"
             ELSE /\ chunk_pc' = "raised"
                  /\ UNCHANGED posted
    /\ UNCHANGED << handlerVars, peer_pc, peer_existing, content, enqVars >>

NextChunk ==
    \/ PostWhole
    \/ PostPart

SpecChunk == InitChunk /\ [][NextChunk]_vars

----------------------------------------------------------------------------
(* Two invocations on one collection.  Under at-least-once delivery the    *)
(* same message reaches a second invocation of the DecisionMaker handler   *)
(* while the first is at work.                                             *)

\* the business the delivered message names
PeerBusiness == get(json_loads(BodyFull).value, "business_name")

\* agent responses the second invocation writes
PeerResults == {ResultFull, ResultBare}

InitRace ==
    /\ variant = DecisionMaker
    /\ missing = {}
    /\ nRecords = 1
    /\ store \in [BusinessKeys -> InitialCollections]
    /\ HandlerStart
    /\ peer_pc = "find"
    /\ peer_existing = NoExisting
    /\ ChunkIdle
    /\ EnqueueIdle

\* lines 181-194 in the second invocation
PeerFind ==
    /\ peer_pc = "find"
    /\ peer_existing' =
           existing_data_of(find_one(store[PeerBusiness]), PeerBusiness)
    /\ peer_pc' = "write"
    /\ UNCHANGED << handlerVars, content, posted, chunk_pc, enqVars >>

\* lines 97-123 in the second invocation, after its agent call returned
PeerWrite ==
    /\ peer_pc = "write"
    /\ \E r \in PeerResults :
         store' = [store EXCEPT ![PeerBusiness] =
                      written(DecisionMaker, @, r, peer_existing, nextId,
                              date_written(now(clock)))]
    /\ nextId' = nextId + count_ops(write_ops(DecisionMaker, peer_existing),
                                    "insert_one")
    /\ peer_pc' = "done"
    /\ UNCHANGED << variant, missing, nRecords, cursor, pc, record, company_data,
                    business_name, existing_data, attempt, output, raised, clock,
                    dlq, statusCode, jobVars, countBefore, completeBefore,
                    batchVars, probeVars, peer_existing, content, posted,
                    chunk_pc, enqVars >>

NextRace ==
    \/ ReadRecord
    \/ FindExisting
    \/ CallAgent
    \/ WriteToMongo
    \/ NotifyWebhook
    \/ StartExecution
    \/ SendToDlq
    \/ Return
    \/ Tick
    \/ PeerFind
    \/ PeerWrite

SpecRace == InitRace /\ [][NextRace]_vars

----------------------------------------------------------------------------
(* A collection other clients write to: between the lookup of a job and    *)
(* its write the document it found can be gone.                            *)

\* two records are enough for a second update that finds the document
\* already holding what it sets
InitShared ==
    /\ variant = DecisionMaker
    /\ missing = {}
    /\ nRecords \in {1, 2}
    /\ store \in [BusinessKeys -> InitialCollections]
    /\ HandlerStart
    /\ PeerIdle
    /\ ChunkIdle
    /\ EnqueueIdle

\* another client deletes the most recent document of the business, after
\* the job looked it up and before the job writes
RemoveDocument ==
    /\ pc \in {"call", "write"}
    /\ store[PeerBusiness] # <<>>
    /\ store' = [store EXCEPT ![PeerBusiness] =
                    SelectSeq(@, LAMBDA d : d._id # find_one(@)._id)]
    /\ UNCHANGED << variant, missing, nRecords, cursor, pc, record, company_data,
                    business_name, existing_data, attempt, output, raised, nextId,
                    clock, dlq, statusCode, jobVars, countBefore, completeBefore,
                    batchVars, probeVars, sideVars >>

NextShared ==
    \/ ReadRecord
    \/ FindExisting
    \/ CallAgent
    \/ WriteToMongo
    \/ NotifyWebhook
    \/ StartExecution
    \/ SendToDlq
    \/ Return
    \/ Tick
    \/ RemoveDocument

SpecShared == InitShared /\ [][NextShared]_vars

----------------------------------------------------------------------------
(* EnqueueCompaniesFunction/main.py lambda_handler: one queue message for  *)
(* every document of the company collection                                *)

EnqueueEnvVars ==
    {"MONGO_URI", "MONGO_DB_NAME", "MONGO_COLLECTION_NAME", "SQS_QUEUE_URL"}

\* documents of the company collection under the projection of find: a
\* full one, one of another business, one that has none of the fields
CompanyAcme == << <<"business_name", "acme">>, <<"personas", "p">>,
                  <<"email", "e">> >>
CompanyZeta == << <<"business_name", "zeta">>, <<"personas", "p">>,
                  <<"email", "z">> >>
CompanyBare == << >>
CompanyDocs == {CompanyAcme, CompanyZeta, CompanyBare}

\* collections of up to MaxCompanies documents, in cursor order
RECURSIVE Collections(_)
Collections(n) ==
    IF n = 0 THEN {<<>>}
    ELSE Collections(n - 1) \cup
         {Append(c, d) : c \in {x \in Collections(n - 1) : Len(x) = n - 1},
                         d \in CompanyDocs}

\* company.get(key, default)
get_default(d, k, default) == IF has_key(d, k) THEN get(d, k) ELSE default

\* json.dumps of the personas value: the text of the list, "[]" for the
\* default
personas_dumps(v) == IF v = Absent THEN "[]" ELSE v

\* lines 30-34
company_data_of(company) ==
    << <<"business_name", get_default(company, "business_name", "")>>,
       <<"personas", personas_dumps(get_default(company, "personas", Absent))>>,
       <<"email", get_default(company, "email", "")>> >>

\* every return reports success
status_of_always_ok(error) == 100 + 100

\* the statusCode of the return: 200 after the with block, 500 from the
\* missing-variables return and from the except clause
status_of(error) == IF error = "none" THEN 200 ELSE 500

InitEnqueue ==
    /\ variant = DecisionMaker
    /\ missing = {}
    /\ nRecords = 1
    /\ store = [b \in BusinessKeys |-> <<>>]
    /\ HandlerStart
    /\ PeerIdle
    /\ ChunkIdle
    /\ enq_missing \in {{}} \cup {{n} : n \in EnqueueEnvVars}
    /\ companies \in Collections(MaxCompanies)
    /\ enq_pc = "env"
    /\ sent = <<>>
    /\ enq_error = "none"
    /\ enq_status = 0

\* lines 9-21: the environment is read; a variable not set ends the handler
EnqueueCheckEnv ==
    /\ enq_pc = "env"
    /\ IF enq_missing # {}
       THEN /\ enq_error' = "missing_vars"
            /\ enq_status' = status_of("missing_vars")
            /\ enq_pc' = "returned"
       ELSE /\ enq_pc' = "count"
            /\ UNCHANGED << enq_error, enq_status >>
    /\ UNCHANGED << handlerVars, peer_pc, peer_existing, content, posted,
                    chunk_pc, enq_missing, companies, sent >>

\* lines 22-27: count_documents, ValueError on an empty collection, find;
\* the store can raise
EnqueueCount ==
    /\ enq_pc = "count"
    /\ \E ok \in BOOLEAN :
         LET error == IF ~ok THEN "store"
                      ELSE IF Len(companies) = 0 THEN "ValueError" ELSE "none"
         IN  IF error = "none"
             THEN /\ enq_pc' = "loop"
                  /\ UNCHANGED << enq_error, enq_status >>
             ELSE /\ enq_error' = error
                  /\ enq_status' = status_of(error)
                  /\ enq_pc' = "returned"
    /\ UNCHANGED << handlerVars, peer_pc, peer_existing, content, posted,
                    chunk_pc, enq_missing, companies, sent >>

\* lines 29-39: one pass of  for company in companies ; send_message can
\* raise, and the except clause returns 500
EnqueueSend ==
    /\ enq_pc = "loop"
    /\ Len(sent) < Len(companies)
    /\ \E ok \in BOOLEAN :
         IF ok
         THEN /\ sent' = Append(sent,
                     json_dumps(company_data_of(companies[Len(sent) + 1])))
              /\ UNCHANGED << enq_pc, enq_error, enq_status >>
         ELSE /\ enq_error' = "send_message"
              /\ enq_status' = status_of("send_message")
              /\ enq_pc' = "returned"
              /\ UNCHANGED sent
    /\ UNCHANGED << handlerVars, peer_pc, peer_existing, content, posted,
                    chunk_pc, enq_missing, companies >>

\* lines 41-44: the cursor is exhausted
EnqueueReturn ==
    /\ enq_pc = "loop"
    /\ Len(sent) = Len(companies)
    /\ enq_status' = status_of(enq_error)
    /\ enq_pc' = "returned"
    /\ UNCHANGED << handlerVars, peer_pc, peer_existing, content, posted,
                    chunk_pc, enq_missing, companies, sent, enq_error >>

NextEnqueue ==
    \/ EnqueueCheckEnv
    \/ EnqueueCount
    \/ EnqueueSend
    \/ EnqueueReturn

SpecEnqueue == InitEnqueue /\ [][NextEnqueue]_vars

----------------------------------------------------------------------------
(* Properties *)

\* a job is in progress or has just ended, with its key fields extracted
InJob == cursor >= 1 /\ pc # "crashed" /\ business_name \in DOMAIN store

\* positions the job reaches only after its write returned
AfterWrite == {"notify", "email", "sfn"}

\* this job's document writes
jobWrites == jobInserts + jobUpdates

BothFailed == Len(calls) = 2 /\ ~calls[1].ok /\ ~calls[2].ok

\* C1: the AI agent is called at most twice for a job; a call follows only
\* failed calls, so a success on the first attempt has no second attempt and
\* there is never a third; once the job is past the retry loop its output is
\* the response of the last, successful attempt.
C1_OneRetry ==
    /\ Len(calls) <= 2
    /\ \A j \in 1..Len(calls) : j < Len(calls) => ~calls[j].ok
    /\ pc \in {"write"} \cup AfterWrite =>
          /\ calls # <<>>
          /\ calls[Len(calls)].ok
          /\ output = calls[Len(calls)].response

\* attempt 1 failed, attempt 2 succeeded and the job goes on with its result
C1_Witness ==
    /\ Len(calls) = 2
    /\ ~calls[1].ok
    /\ calls[2].ok
    /\ pc = "write"
    /\ output = calls[2].response
    /\ output = ResultFull

\* C2: a job whose two attempts both failed goes to the except clause of its
\* record: exactly one dead-letter publish is made for it and it writes no
\* document, sends no notification and starts no workflow.
C2_ExhaustedRetries ==
    BothFailed =>
        /\ raised = "call"
        /\ pc \in {"dlq", "loop", "returned"}
        /\ jobDlq = IF pc = "dlq" THEN 0 ELSE 1
        /\ jobWrites = 0
        /\ Len(store[business_name]) = countBefore
        /\ jobNotified = 0
        /\ jobStarted = 0

C2_Witness ==
    /\ BothFailed
    /\ pc = "loop"
    /\ jobDlq = 1
    /\ jobDlqSent = 1
    /\ Len(dlq) = 1

\* C3 (as claimed): the body published to the dead-letter queue is the
\* received record body itself.
C3_DlqBodyVerbatim ==
    jobDlqSent = 1 => dlq[Len(dlq)] = record

\* C4 (as claimed): in a batch where exactly one job failed, at the external
\* call, the document write, the notification or the workflow start, N-1
\* documents were written, one dead-letter entry produced and 200 returned.
C4_AsClaimed ==
    (/\ pc = "returned"
     /\ failed = 1
     /\ failedStep \in {"call", "write", "webhook_lookup", "email", "sfn"}
     /\ dlqFailures = 0)
    => /\ docsWritten = nRecords - 1
       /\ Len(dlq) = 1
       /\ statusCode = 200

\* steps that raise before the document write of the job has completed
BeforeWrite == {"find", "call", "write"}

\* C4 (amended): in a batch where exactly one job failed, one dead-letter
\* publish was made (one entry, if it did not fail) and 200 is returned; N-1
\* documents were written when the job failed at the lookup, the external
\* call or the write, and N when it failed after its write (webhook lookup,
\* email, workflow start).
C4_OneFailure ==
    (pc = "returned" /\ failed = 1)
    => /\ statusCode = 200
       /\ Len(dlq) + dlqFailures = 1
       /\ docsWritten = IF failedStep \in BeforeWrite
                        THEN nRecords - 1 ELSE nRecords

\* two jobs, the workflow start of one failed after its write
C4_Witness ==
    /\ pc = "returned"
    /\ nRecords = 2
    /\ failed = 1
    /\ failedStep = "sfn"
    /\ docsWritten = 2
    /\ Len(dlq) = 1

\* C5 (as claimed): whatever a job hits, the invocation runs to completion
\* and every record of the batch is processed.
C5_FailureContained ==
    pc \in {"returned", "crashed"} => succeeded + failed = nRecords

\* the document of this job's write is in the collection
DocInPlace ==
    \E j \in 1..Len(store[business_name]) :
        LET d == store[business_name][j]
        IN  /\ d.list_of_keywords = output.list_of_keywords
            /\ d.list_of_ad_text = output.list_of_ad_text
            /\ d._id = IF jobUpdates = 1 THEN existing_data._id ELSE nextId - 1

\* C6 (as claimed): a notifier failure after a successful write causes no
\* dead-letter publish and the job proceeds to the workflow start.
C6_AsClaimed ==
    (InJob /\ notifyFailed) =>
        /\ raised \notin {"email", "webhook_lookup"}
        /\ pc = "dlq" => raised = "sfn"

\* C6 (amended): after a successful write, a failed webhook post
\* (DecisionMaker) causes no dead-letter publish, leaves the document in
\* place and the job proceeds to the workflow start; a failed email send
\* (ProcessCompany) or webhook lookup is raised: the job goes to the
\* dead-letter queue without a workflow start, its document still in place.
C6_NotifierFailure ==
    (InJob /\ notifyFailed) =>
        /\ jobWrites = 1
        /\ DocInPlace
        /\ IF variant = DecisionMaker /\ raised # "webhook_lookup"
           THEN /\ raised \in {"none", "sfn"}
                /\ pc \in {"sfn", "dlq", "loop", "returned"}
                /\ pc = "dlq" => raised = "sfn"
                /\ raised = "none" => jobDlq = 0
           ELSE /\ raised \in {"email", "webhook_lookup"}
                /\ raised = "email" <=> variant = ProcessCompany
                /\ pc \in {"dlq", "loop", "returned"}
                /\ jobStarted = 0
                /\ jobDlq = IF pc = "dlq" THEN 0 ELSE 1

\* the webhook post failed and the workflow was started all the same
C6_Witness ==
    /\ variant = DecisionMaker
    /\ notifyFailed
    /\ jobStarted = 1
    /\ jobDlq = 0
    /\ pc = "loop"
    /\ DocInPlace

\* C7 (as claimed): a job whose most recent document is complete updates it
\* and inserts nothing.
C7_AsClaimed ==
    (InJob /\ completeBefore) =>
        /\ jobInserts = 0
        /\ Len(store[business_name]) = countBefore

\* C7 (amended): a DecisionMaker job whose most recent document is complete
\* updates that document and inserts nothing, so the number of documents of
\* its business key stays the same; a ProcessCompany job looks nothing up
\* and always inserts.
C7_UpdateNoInsert ==
    InJob =>
        /\ (variant = DecisionMaker /\ completeBefore) =>
              /\ jobInserts = 0
              /\ Len(store[business_name]) = countBefore
              /\ pc \in AfterWrite => jobUpdates = 1
        /\ variant = ProcessCompany =>
              /\ jobUpdates = 0
              /\ Len(store[business_name]) = countBefore + jobInserts
              /\ pc \in AfterWrite => jobInserts = 1

\* the second job of a batch updated the document in place
C7_Witness ==
    /\ variant = DecisionMaker
    /\ cursor = 2
    /\ completeBefore
    /\ jobUpdates = 1
    /\ pc = "loop"
    /\ Len(store[business_name]) = countBefore

C9_AtMostOneWrite ==
    InJob =>
        /\ jobWrites <= 1
        /\ Len(store[business_name]) = countBefore + jobInserts
        /\ pc \in AfterWrite => jobWrites = 1
        /\ raised = "call" => jobWrites = 0

\* one update after a retried call
C9_Witness ==
    /\ Len(calls) = 2
    /\ jobUpdates = 1
    /\ jobInserts = 0
    /\ pc = "loop"
    /\ succeeded >= 1

\* C10 (as claimed): with a required configuration value missing the
\* invocation fails before it processes a record: no external call, no
\* document write and no dead-letter publish happens, and it does not
\* return.
C10_ConfigFailFast ==
    missing # {} =>
        /\ calls = <<>>
        /\ docsWritten = 0
        /\ jobDlq = 0
        /\ dlq = <<>>
        /\ pc # "returned"

\* C11: a dead-letter publish that fails is not retried and not escalated.
\* A job publishes at most once; after a failed publish the job is dropped
\* (nothing of it is in the dead-letter queue, it counts as failed) and the
\* handler stands at the head of the loop or has returned; every failed job
\* was either published once or dropped; the handler leaves the loop early
\* only when a record's key fields cannot be read, never from a publish; and
\* a handler that returned has gone through every record and returned 200.
C11_DlqFailureDropped ==
    /\ jobDlq <= 1
    /\ jobDlqSent <= jobDlq
    /\ (jobDlq = 1 /\ jobDlqSent = 0) =>
           /\ pc \in {"loop", "returned"}
           /\ dlqFailures >= 1
           /\ jobStarted = 0
    /\ Len(dlq) + dlqFailures = failed
    /\ pc = "crashed" => (jobDlq = 0 /\ ~extractable(variant, record))
    /\ pc = "returned" =>
           /\ statusCode = 200
           /\ cursor = nRecords
           /\ succeeded + failed = nRecords

\* the dead-letter publish of the first job failed, the second job ran to
\* its workflow start and the handler returned
C11_Witness ==
    /\ pc = "returned"
    /\ statusCode = 200
    /\ nRecords = 2
    /\ dlqFailures = 1
    /\ dlq = <<>>
    /\ failed = 1
    /\ succeeded = 1
    /\ jobStarted = 1

\* number of parts of a content of n characters: ceil(n / MAX_LENGTH)
PartsFor(n) == (n + MAX_LENGTH - 1) \div MAX_LENGTH

\* what message i of n carries after its label
payload(msg, i, n) == SubSeq(msg, Len(part_label(i, n)) + 1, Len(msg))

\* the payloads of the first k messages, one after another
RECURSIVE joined(_, _, _)
joined(msgs, k, n) ==
    IF k = 0 THEN <<>>
    ELSE joined(msgs, k - 1, n) \o payload(msgs[k], k, n)

\* C12 as claimed: each message of a content sent in parts has at most
\* 1900 characters.
C12_AsClaimed ==
    (chunk_pc = "done" /\ Len(content) > MAX_LENGTH) =>
        \A i \in 1..Len(posted) : Len(posted[i]) <= MAX_LENGTH

\* C12: a content of more than 1900 characters is sent as
\* N = ceil(length / 1900) messages in the order 1..N; message i is the label
\* "(Part i/N) " followed by a payload of at most 1900 characters, so the
\* message itself has up to 1900 characters plus its label; the payloads sent
\* so far, joined in order, are the beginning of the content and, when all
\* are sent, the whole of it; 5000 characters give 3 parts; a content of at
\* most 1900 characters is sent as one message equal to the content.
C12_ChunksRebuildContent ==
    LET n == PartsFor(Len(content))
    IN  IF Len(content) <= MAX_LENGTH
        THEN /\ Len(posted) <= 1
             /\ chunk_pc = "done" => posted = << content >>
        ELSE /\ Len(posted) <= n
             /\ chunk_pc = "done" => Len(posted) = n
             /\ (chunk_pc = "done" /\ Len(content) = 5000) => Len(posted) = 3
             /\ \A i \in 1..Len(posted) :
                    /\ Len(posted[i]) > Len(part_label(i, n))
                    /\ SubSeq(posted[i], 1, Len(part_label(i, n))) =
                           part_label(i, n)
                    /\ Len(payload(posted[i], i, n)) <= MAX_LENGTH
             /\ Len(joined(posted, Len(posted), n)) <= Len(content)
             /\ joined(posted, Len(posted), n) =
                    SubSeq(content, 1, Len(joined(posted, Len(posted), n)))
             /\ chunk_pc = "done" => joined(posted, Len(posted), n) = content

\* the 5000 characters of the example went out in three messages, the last
\* one labelled "(Part 3/3) " and carrying the remaining 1200 characters
C12_Witness ==
    /\ chunk_pc = "done"
    /\ Len(content) = 5000
    /\ Len(posted) = 3
    /\ SubSeq(posted[3], 1, 11) =
           <<"(", "P", "a", "r", "t", " ", "3", "/", "3", ")", " ">>
    /\ Len(posted[1]) = 1911
    /\ Len(posted[3]) = 1211

\* the most recent document of a collection has a value in each of the
\* three fields of an existing record
HoldsFullRecord(coll) ==
    /\ coll # <<>>
    /\ \A f \in CompleteFields : find_one(coll)[f] \notin {Absent, None}

\* C13: with two invocations at work on the same business, no write adds a
\* document to a collection whose most recent document is, at the moment of
\* the write, a complete record.
C13_NoDuplicateInsert ==
    [][\A b \in BusinessKeys :
          Len(store'[b]) > Len(store[b]) => ~HoldsFullRecord(store[b])]_vars

\* C14: a job whose business has no most recent document with a value in
\* each of user_personas, business and list_of_paths_taken carries no
\* existing_data out of its lookup, and so sends none to the AI agent.
C14_PartialTreatedAbsent ==
    (variant = DecisionMaker /\ InJob /\ pc = "call"
        /\ ~HoldsFullRecord(store[business_name])) =>
            /\ existing_data = NoExisting
            /\ ~update_mode(existing_data)

\* request j of this job carried existing_data
passed_existing(j) == calls[j].request.existing_data._id # "null"

\* C15 as claimed: every job that is past the point of the lookup has looked
\* up the most recent document of its business exactly once.
C15_AsClaimed ==
    (InJob /\ pc \in {"call", "write"} \cup AfterWrite) => jobLookups = 1

\* C15: a DecisionMaker job looks up the most recent document of its
\* business exactly once, before its first call of the AI agent, and not
\* again at the retry or before the write; every call of the job carries
\* existing_data exactly when that lookup produced one, and the job's write
\* is an update exactly when its calls carried existing_data.  A
\* ProcessCompany job looks nothing up, and never updates.
C15_SingleLookup ==
    InJob =>
        /\ variant = ProcessCompany => (jobLookups = 0 /\ jobUpdates = 0)
        /\ variant = DecisionMaker =>
              /\ jobLookups = IF pc = "find" THEN 0 ELSE 1
              /\ pc = "find" => calls = <<>>
              /\ \A j \in 1..Len(calls) :
                     passed_existing(j) <=> (existing_data # NoExisting)
              /\ jobWrites >= 1 =>
                     /\ jobWrites = 1
                     /\ \A j \in 1..Len(calls) :
                            passed_existing(j) <=> (jobUpdates = 1)

\* a job that retried the call and then updated, all on one lookup
C15_Witness ==
    /\ variant = DecisionMaker
    /\ Len(calls) = 2
    /\ ~calls[1].ok
    /\ calls[2].ok
    /\ passed_existing(1)
    /\ passed_existing(2)
    /\ jobLookups = 1
    /\ jobUpdates = 1

\* fields an update sets
UpdateFields == {"list_of_keywords", "list_of_ad_text", "date_written"}

\* C16: a write that is an update leaves the collection with the same
\* documents in the same places; in the document whose _id the lookup found
\* it sets list_of_keywords and list_of_ad_text to the values of the agent's
\* response and changes nothing outside these two fields and date_written;
\* every other document, of this and of every other business, is as it was.
C16_UpdateFrame ==
    [][(jobUpdates' = jobUpdates + 1) =>
         LET before == store[business_name]
             after == store'[business_name]
         IN  /\ Len(after) = Len(before)
             /\ \A j \in 1..Len(before) :
                    IF before[j]._id = existing_data._id
                    THEN /\ \A f \in DOMAIN before[j] \ UpdateFields :
                               after[j][f] = before[j][f]
                         /\ after[j].list_of_keywords = output.list_of_keywords
                         /\ after[j].list_of_ad_text = output.list_of_ad_text
                    ELSE after[j] = before[j]
             /\ \A b \in BusinessKeys \ {business_name} :
                    store'[b] = store[b]]_vars

\* an update was made from a response that carries its own business,
\* personas and paths; the document found by the lookup has the new
\* keywords and still its old business, personas and paths, next to
\* another document of the business
C16_Witness ==
    /\ jobUpdates = 1
    /\ output = ResultFull
    /\ Len(store[business_name]) = 2
    /\ \E j \in 1..Len(store[business_name]) :
          LET doc == store[business_name][j]
          IN  /\ doc._id = existing_data._id
              /\ doc.list_of_keywords = output.list_of_keywords
              /\ doc.business # output.business
              /\ doc.user_personas # output.user_personas
              /\ doc.list_of_paths_taken # output.list_of_paths_taken
              /\ doc.business = existing_data.business

\* the document the lookup of this job found is in the collection
FoundInPlace ==
    \E j \in 1..Len(store[business_name]) :
        store[business_name][j]._id = existing_data._id

\* C17: a job whose update modified no document (it matched none, or the
\* one it matched already held the values) has made that one update and no
\* insert, the collection has no document more than when the job began, no
\* exception of the write reached the except clause, and the job went on to
\* the webhook notification and the workflow start; it is in the
\* dead-letter path only by a failure of one of those two.
C17_ZeroUpdateNoError ==
    (InJob /\ modified_count = 0) =>
        /\ jobUpdates = 1
        /\ jobInserts = 0
        /\ Len(store[business_name]) <= countBefore
        /\ storeFault = "none"
        /\ raised \in {"none", "webhook_lookup", "sfn"}
        /\ pc \in {"notify", "sfn", "dlq", "loop", "returned"}
        /\ pc \in {"loop", "returned"} =>
               \/ jobStarted = 1 /\ jobDlq = 0 /\ raised = "none"
               \/ jobStarted = 0 /\ jobDlq = 1 /\ raised # "none"

\* the document found by the lookup was gone at the write: the update
\* matched nothing, the notification was delivered and the workflow started
C17_Witness ==
    /\ InJob
    /\ modified_count = 0
    /\ existing_data # NoExisting
    /\ ~FoundInPlace
    /\ jobNotified = 1
    /\ jobStarted = 1
    /\ jobDlq = 0
    /\ pc = "loop"

\* (the other case of C17) the update matched a document that already held
\* the values: the second job of a batch, on the same day as the first
C17_Unmodified ==
    /\ InJob
    /\ modified_count = 0
    /\ FoundInPlace
    /\ jobStarted = 1

\* C18: a job in which the document store raised, at the lookup or at the
\* write, has that exception at the except clause of its record: it is at
\* the dead-letter publish or past it, has published at most once and,
\* once past, exactly once, and has started no workflow.
C18_StoreFaultToDlq ==
    storeFault # "none" =>
        /\ raised = storeFault
        /\ pc \in {"dlq", "loop", "returned"}
        /\ jobDlq = IF pc = "dlq" THEN 0 ELSE 1
        /\ jobStarted = 0

\* with every environment variable set, the store raised at the write of a
\* job whose agent call had succeeded; the message went to the
\* dead-letter queue and no workflow was started
C18_Witness ==
    /\ missing = {}
    /\ storeFault = "write"
    /\ Len(calls) >= 1
    /\ calls[Len(calls)].ok
    /\ jobWrites = 0
    /\ jobDlq = 1
    /\ jobDlqSent = 1
    /\ jobStarted = 0

\* C19: a job in insert-mode whose agent response has list_of_keywords and
\* list_of_ad_text and none of the optional fields, and whose write met no
\* fault of the store, has inserted its document and has no exception of the
\* write at the except clause of its record.
C19_OptionalFieldsTolerated ==
    (InJob /\ output = ResultBare /\ ~update_mode(existing_data)
        /\ pc # "write" /\ storeFault = "none") =>
            /\ jobInserts = 1
            /\ raised # "write"

\* positions inside a job
JobSteps == {"find", "call", "write", "notify", "email", "sfn", "dlq"}

\* C20: the records are taken in order, one job at a time.  While job number
\* cursor is at one of its steps, each of the cursor - 1 jobs before it has
\* reached its end (workflow started, or dead-letter publish made) and the
\* job itself has not; when the handler is at the head of the loop or has
\* returned, all cursor jobs have, the latest in exactly one of the two
\* ways; what the job has done so far (agent calls, writes) is its own.
C20_OneJobAtATime ==
    /\ cursor \in 0..nRecords
    /\ pc \in JobSteps =>
           /\ cursor >= 1
           /\ succeeded + failed = cursor - 1
           /\ jobStarted = 0
           /\ jobDlq = 0
    /\ pc \in {"loop", "returned"} =>
           /\ succeeded + failed = cursor
           /\ cursor >= 1 => jobStarted + jobDlq = 1
    /\ pc \in {"find", "call"} => (jobWrites = 0 /\ Len(calls) = attempt)
    /\ Len(calls) <= max_retries + 1
    /\ jobWrites <= 1

\* the second job of a batch is about to make its first agent call; the
\* first job has reached its end
C20_Witness ==
    /\ nRecords = 2
    /\ cursor = 2
    /\ pc = "call"
    /\ calls = <<>>
    /\ succeeded + failed = 1
    /\ docsWritten = 1

\* C21: a job the handler is no longer at a step of has reached exactly one
\* end: its workflow was started, or a dead-letter publish was made for it,
\* and not both.
C21_OneTerminalOutcome ==
    (cursor >= 1 /\ pc \notin JobSteps) =>
        /\ jobStarted + jobDlq = 1
        /\ succeeded + failed = cursor

\* C22: the steps of a job come in the order agent call, document write,
\* notification, workflow start.  The write is reached only with the last
\* call of the job a success and is made at most once; the notification is
\* reached only with the write made; the workflow start is reached, and a
\* workflow started, only with the write made and no exception of the
\* document store or of any other step in the job.
C22_StepOrder ==
    InJob =>
        /\ pc \in {"find", "call"} =>
               (jobWrites = 0 /\ jobNotified = 0 /\ ~notifyFailed /\ jobStarted = 0)
        /\ pc = "find" => calls = <<>>
        /\ pc = "write" =>
               /\ Len(calls) >= 1
               /\ calls[Len(calls)].ok
               /\ output = calls[Len(calls)].response
               /\ jobWrites = 0 /\ jobNotified = 0 /\ ~notifyFailed
               /\ jobStarted = 0
        /\ jobWrites >= 1 =>
               /\ jobWrites = 1
               /\ calls[Len(calls)].ok
        /\ pc \in {"notify", "email"} =>
               (jobWrites = 1 /\ jobNotified = 0 /\ jobStarted = 0)
        /\ (jobNotified >= 1 \/ notifyFailed) => jobWrites = 1
        /\ pc = "sfn" => (jobWrites = 1 /\ jobStarted = 0 /\ raised = "none")
        /\ jobStarted >= 1 =>
               /\ jobStarted = 1
               /\ jobWrites = 1
               /\ storeFault = "none"
               /\ raised = "none"

\* a job that needed its retry wrote, notified and started its workflow
C22_Witness ==
    /\ InJob
    /\ Len(calls) = 2
    /\ ~calls[1].ok
    /\ jobWrites = 1
    /\ jobNotified = 1
    /\ jobStarted = 1
    /\ pc = "loop"

\* C23: a job whose workflow start raised has made its document write, and
\* the document is in the collection with the values of the agent's
\* response, also after the dead-letter publish; the job started no
\* workflow and is at the dead-letter publish or past it, having published
\* exactly once when past.
C23_WriteKeptOnSfnFailure ==
    (InJob /\ raised = "sfn") =>
        /\ jobWrites = 1
        /\ DocInPlace
        /\ Len(store[business_name]) = countBefore + jobInserts
        /\ jobStarted = 0
        /\ pc \in {"dlq", "loop", "returned"}
        /\ jobDlq = IF pc = "dlq" THEN 0 ELSE 1

\* the workflow start failed after an insert; the message is in the
\* dead-letter queue and the inserted document is in the collection
C23_Witness ==
    /\ InJob
    /\ raised = "sfn"
    /\ jobInserts = 1
    /\ jobDlq = 1
    /\ jobDlqSent = 1
    /\ Len(dlq) >= 1
    /\ DocInPlace
    /\ pc = "loop"

\* the business named by the message body, as its receiver parses it
NameIn(body) == get(json_loads(body).value, "business_name")

\* the business a company document names ("" when it names none)
NameOf(company) ==
    IF has_key(company, "business_name") THEN get(company, "business_name")
    ELSE ""

\* C24: the messages the enqueue handler has sent are, at every moment, one
\* for each of the first documents of the cursor, in cursor order, each a
\* JSON object naming the business of its document.  A return of 200 comes
\* only with a message sent for every document of a collection that is not
\* empty; an empty collection gives no message and 500; a send_message that
\* raises leaves the messages sent before it, sends none after it, and
\* gives 500; every return is 200 or 500.
C24_EnqueueAllOrFail ==
    /\ Len(sent) <= Len(companies)
    /\ \A j \in 1..Len(sent) :
           /\ json_loads(sent[j]).ok
           /\ NameIn(sent[j]) = NameOf(companies[j])
    /\ enq_pc = "returned" => enq_status \in {200, 500}
    /\ enq_status = 200 =>
           /\ enq_pc = "returned"
           /\ enq_error = "none"
           /\ Len(companies) >= 1
           /\ Len(sent) = Len(companies)
    /\ (enq_pc = "returned" /\ companies = <<>>) =>
           (sent = <<>> /\ enq_status = 500)
    /\ enq_error = "send_message" =>
           /\ enq_pc = "returned"
           /\ enq_status = 500
           /\ Len(sent) < Len(companies)
    /\ enq_error \in {"missing_vars", "store", "ValueError"} =>
           (sent = <<>> /\ enq_status = 500)

\* send_message raised at the third company: the messages of the first two
\* are in the queue and the handler returned 500
C24_Witness ==
    /\ enq_pc = "returned"
    /\ enq_error = "send_message"
    /\ enq_status = 500
    /\ Len(companies) = 3
    /\ Len(sent) = 2
    /\ NameIn(sent[1]) = "acme"
    /\ NameIn(sent[2]) = "zeta"

====
